---- MODULE Spec2Model ----
(***************************************************************************)
(* Model of the extension: ASTParser (registry, parseFile, walkTree,       *)
(* extractFunctionMetadata, calculateComplexity), CodebaseIndexer          *)
(* (indexWorkspace, indexFile, findFunction), the indexCodebase and        *)
(* runCommand commands, askLLM and the chat handler of ChatViewProvider.   *)
(*                                                                         *)
(* A syntax tree is a sequence of node records; node 1 is the root.  Each  *)
(* node carries what the code reads from a tree-sitter node: its type, the *)
(* text of its "name" field child ("" when the child is absent, which is   *)
(* what getNodeText returns for a null node), the text of its "type" field *)
(* child ("" when absent), the field of its parent it hangs under, its own *)
(* text as the sequence of its tokens, its children in source order and    *)
(* its start/end rows.                                                     *)
(***************************************************************************)
EXTENDS Integers, Sequences, FiniteSets, TLC

VARIABLES
  nodes,      \* the syntax tree of the buffer handed to parseFile
  call,       \* the arguments of the parseFile call made on the buffer
  analysis,   \* what that parseFile call returned
  workspace,  \* path -> state of the file on disk
  index,      \* CodebaseIndexer.index
  pc,         \* position of the indexWorkspace call
  queue,      \* files enumerated by findFiles and not yet indexed
  scanned,    \* the files the current scan has indexed, and whether it could
  everOk,     \* the paths some indexFile call has parsed since construction
  scans,      \* number of indexWorkspace calls started
  registry,   \* ASTParser.parsers of the parser that analyses the buffer
  loaded,     \* the grammars that could be loaded when it was constructed
  cursor,     \* editor.selection.active.line when the current function was asked
  current,    \* what extractCurrentFunctionMetadata returned
  lookup,     \* the last findFunction call and what it returned
  activation, \* what activate registered and the trust it captured
  wsTrusted,  \* vscode.workspace.isTrusted
  received,   \* number of runCommand messages received from the webview
  dialogs,    \* the commands whose modal confirmation is awaited
  confirmation, \* what the last confirmation dialog returned
  terminal,   \* the texts sent to a terminal
  runs,       \* number of invocations of the indexCodebase command
  report,     \* the notification the last invocation has shown
  before,     \* the notification the invocation before it had shown
  changedCur, \* a file has changed since the last invocation started
  changedPrev, \* a file changed between the starts of the last two invocations
  context,    \* the last _getEnhancedCodeContext call and what it returned
  chats,      \* the position of each _handleChatMessage call, its request in flight
  posted      \* the messages posted to the webview, oldest first

vars == <<nodes, call, analysis, workspace, index, pc, queue, scanned,
          everOk, scans, registry, loaded, cursor, current, lookup,
          activation, wsTrusted, received, dialogs, confirmation, terminal,
          runs, report, before, changedCur, changedPrev,
          context, chats, posted>>

treeVars == <<nodes, call, analysis>>
indexVars == <<workspace, index, pc, queue, scanned, everOk, scans>>
commandVars == <<activation, wsTrusted, received, dialogs, confirmation, terminal>>
reportVars == <<runs, report, before, changedCur, changedPrev>>
chatVars == <<context, chats, posted>>
uiVars == <<commandVars, reportVars, chatVars>>
restVars == <<registry, loaded, cursor, current, lookup, uiVars>>
codeVars == <<treeVars, indexVars, registry, loaded, cursor, current, lookup>>

-----------------------------------------------------------------------------
(* Bounds *)

MaxNodes == 3

MaxScans == 2

MaxParams == 3
MaxCommands == 3
MaxRuns == 2
MaxChats == 2

-----------------------------------------------------------------------------
(* Values *)

null == [null |-> TRUE]

NotParsed == [notParsed |-> TRUE]

NoCall == [noCall |-> TRUE]

(* undefined, as Array.prototype.find returns it *)
undefined == [undefined |-> TRUE]

(* no ASTParser has been constructed yet *)
NotConstructed == {"not constructed"}

Root == 1

(* ASTParser.walkTree: the node types it classifies *)
FunctionTypes == {"method_declaration", "function_declaration"}

ClassTypes == {"class_declaration"}

ImportTypes == {"import_declaration", "import_statement"}

Node(type, name, text) ==
  [type |-> type, name |-> name, text |-> text, children |-> <<>>,
   startRow |-> 0, endRow |-> 0, field |-> "", typeText |-> ""]

(* the node as the child its parent reaches through the given field *)
InField(field, node) == [node EXCEPT !.field = field]

(* the node with a "type" field child of the given text *)
WithType(typeText, node) == [node EXCEPT !.typeText = typeText]

RootNode == Node("program", "", <<>>)

-----------------------------------------------------------------------------
(* ASTParser *)

Grammars == {"tree-sitter-java", "tree-sitter-javascript",
             "tree-sitter-typescript", "tree-sitter-python"}

(* an initializeParsers whose registrations sit in one try block: the     *)
(* first grammar that fails to load ends the registration                  *)
initializeParsersOneTry(available) ==
  LET java == IF "tree-sitter-java" \in available
              THEN {<<"java", "javaParser">>} ELSE {}
      js   == IF {"tree-sitter-java", "tree-sitter-javascript"} \subseteq available
              THEN {<<"javascript", "jsParser">>,
                    <<"javascriptreact", "jsParser">>} ELSE {}
      ts   == IF {"tree-sitter-java", "tree-sitter-javascript",
                  "tree-sitter-typescript"} \subseteq available
              THEN {<<"typescript", "tsParser">>,
                    <<"typescriptreact", "tsParser">>} ELSE {}
      py   == IF available = {"tree-sitter-java", "tree-sitter-javascript",
                              "tree-sitter-typescript", "tree-sitter-python"}
              THEN {<<"python", "pyParser">>} ELSE {}
      reg  == java \cup js \cup ts \cup py
  IN  [id \in {e[1] : e \in reg} |-> (CHOOSE e \in reg : e[1] = id)[2]]

(* ASTParser.initializeParsers: language id -> parser, for the grammars    *)
(* that could be loaded; a grammar that fails to load registers nothing.   *)
initializeParsers(available) ==
  LET java == IF "tree-sitter-java" \in available
              THEN {<<"java", "javaParser">>} ELSE {}
      js   == IF "tree-sitter-javascript" \in available
              THEN {<<"javascript", "jsParser">>,
                    <<"javascriptreact", "jsParser">>} ELSE {}
      ts   == IF "tree-sitter-typescript" \in available
              THEN {<<"typescript", "tsParser">>,
                    <<"typescriptreact", "tsParser">>} ELSE {}
      py   == IF "tree-sitter-python" \in available
              THEN {<<"python", "pyParser">>} ELSE {}
      reg  == java \cup js \cup ts \cup py
  IN  [id \in {e[1] : e \in reg} |-> (CHOOSE e \in reg : e[1] = id)[2]]

(* the registry of an ASTParser constructed with every grammar installed *)
parsers == initializeParsers(Grammars)

(* new Map(): the registry before initializeParsers has run *)
EmptyRegistry == initializeParsers({})

(* ASTParser.getNodeText of the node itself *)
getNodeText(t, n) == t[n].text

RECURSIVE traverse(_, _)
RECURSIVE traverseAll(_, _)

(* the table without its switch/case entry *)
complexityNodesNoCase ==
  {"if_statement", "for_statement", "while_statement", "catch"}

(* calculateComplexity: the table of node types that add one *)
complexityNodes ==
  {"if_statement", "for_statement", "while_statement", "case", "catch"}

(* a traverse that looks at the node and its children only *)
traverseShallow(t, n) ==
  (IF t[n].type \in complexityNodes THEN 1 ELSE 0)
    + Cardinality({i \in DOMAIN t[n].children :
                     t[t[n].children[i]].type \in complexityNodes})

(* a traverse that leaves out the functions nested below the node *)
traverseOwnBody(t, n) ==
  (IF t[n].type \in complexityNodes THEN 1 ELSE 0)
    + traverseAll(t, SelectSeq(t[n].children,
                               LAMBDA c : t[c].type \notin FunctionTypes))

(* calculateComplexity's inner traverse: the increments made below node n *)
traverse(t, n) ==
  (IF t[n].type \in complexityNodes THEN 1 ELSE 0)
    + traverseAll(t, t[n].children)

traverseAll(t, cs) ==
  IF cs = <<>> THEN 0 ELSE traverse(t, Head(cs)) + traverseAll(t, Tail(cs))

(* a score that starts from 0 *)
calculateComplexityFromZero(t, n) == traverse(t, n)

calculateComplexity(t, n) == 1 + traverse(t, n)

(* node.childForFieldName: the first child under that field, 0 for null *)
childForFieldName(t, n, field) ==
  LET cs == SelectSeq(t[n].children, LAMBDA c : t[c].field = field)
  IN  IF cs = <<>> THEN 0 ELSE Head(cs)

(* the loop of extractParameters over the children of the parameter list *)
RECURSIVE paramsOf(_, _)
paramsOf(t, cs) ==
  IF cs = <<>> THEN <<>>
  ELSE LET child == t[Head(cs)]
           rest  == paramsOf(t, Tail(cs))
       IN  IF child.type = "formal_parameter" \/ child.type = "parameter"
           THEN <<[type |-> IF child.typeText # "" THEN child.typeText
                            ELSE "unknown",
                   name |-> IF child.name # "" THEN child.name
                            ELSE "unknown"]>> \o rest
           ELSE rest

extractParameters(t, paramsNode) ==
  IF paramsNode = 0 THEN <<>> ELSE paramsOf(t, t[paramsNode].children)

extractReturnType(t, n) ==
  IF t[n].typeText # "" THEN t[n].typeText ELSE "void"

(* String.prototype.includes on the text of a node, token by token *)
includes(text, word) == \E i \in DOMAIN text : text[i] = word

(* a loop that gives up at the first modifiers child without a keyword *)
RECURSIVE visibilityOfFirstModifiers(_, _)
visibilityOfFirstModifiers(t, cs) ==
  IF cs = <<>> THEN "package"
  ELSE LET child == t[Head(cs)]
       IN  IF child.type = "modifiers" /\ includes(child.text, "public")
           THEN "public"
           ELSE IF child.type = "modifiers" /\ includes(child.text, "private")
           THEN "private"
           ELSE IF child.type = "modifiers" /\ includes(child.text, "protected")
           THEN "protected"
           ELSE IF child.type = "modifiers" THEN "package"
           ELSE visibilityOfFirstModifiers(t, Tail(cs))

(* the loop of extractVisibility over the children of the function node *)
RECURSIVE visibilityOf(_, _)
visibilityOf(t, cs) ==
  IF cs = <<>> THEN "package"
  ELSE LET child == t[Head(cs)]
       IN  IF child.type = "modifiers" /\ includes(child.text, "public")
           THEN "public"
           ELSE IF child.type = "modifiers" /\ includes(child.text, "private")
           THEN "private"
           ELSE IF child.type = "modifiers" /\ includes(child.text, "protected")
           THEN "protected"
           ELSE visibilityOf(t, Tail(cs))

extractVisibility(t, n) == visibilityOf(t, t[n].children)

(* getNodeText(node, code).split("{")[0].trim(): the tokens before the     *)
(* first opening brace                                                     *)
signatureOf(text) ==
  LET braces == {i \in DOMAIN text : text[i] = "{"}
  IN  IF braces = {} THEN text
      ELSE SubSeq(text, 1, (CHOOSE i \in braces : \A j \in braces : i <= j) - 1)

(* an extractFunctionMetadata that reports the rows of the tree as lines *)
extractFunctionMetadataRows(t, n) ==
  LET name == t[n].name
  IN  IF name = "" THEN null
      ELSE [name       |-> name,
            signature  |-> signatureOf(getNodeText(t, n)),
            params     |-> extractParameters(t, childForFieldName(t, n, "parameters")),
            returnType |-> extractReturnType(t, n),
            lineStart  |-> t[n].startRow,
            lineEnd    |-> t[n].endRow,
            visibility |-> extractVisibility(t, n),
            complexity |-> calculateComplexity(t, n)]

extractFunctionMetadata(t, n) ==
  LET name == t[n].name
  IN  IF name = "" THEN null
      ELSE [name       |-> name,
            signature  |-> signatureOf(getNodeText(t, n)),
            params     |-> extractParameters(t, childForFieldName(t, n, "parameters")),
            returnType |-> extractReturnType(t, n),
            lineStart  |-> t[n].startRow + 1,
            lineEnd    |-> t[n].endRow + 1,
            visibility |-> extractVisibility(t, n),
            complexity |-> calculateComplexity(t, n)]

(* the FileAnalysis parseFile starts from *)
EmptyAnalysis(language) ==
  [fileName |-> "", language |-> language,
   functions |-> <<>>, classes |-> <<>>, imports |-> <<>>]

NoFail == -1

RECURSIVE walkTree(_, _, _)
RECURSIVE walkChildren(_, _, _)

(* a walk that does not enter a function node it has dropped *)
walkTreeSkipDropped(t, n, st) ==
  IF st.thrown THEN st
  ELSE IF st.visited + 1 = st.failAt THEN [st EXCEPT !.thrown = TRUE]
  ELSE
    LET a0 == st.analysis
        funcMetadata == extractFunctionMetadata(t, n)
        a1 == IF t[n].type \in FunctionTypes /\ funcMetadata # null
              THEN [a0 EXCEPT !.functions = Append(@, funcMetadata)]
              ELSE a0
        a2 == IF t[n].type \in ClassTypes /\ t[n].name # ""
              THEN [a1 EXCEPT !.classes = Append(@, t[n].name)]
              ELSE a1
        a3 == IF t[n].type \in ImportTypes /\ getNodeText(t, n) # <<>>
              THEN [a2 EXCEPT !.imports = Append(@, getNodeText(t, n))]
              ELSE a2
        s1 == [st EXCEPT !.analysis = a3, !.visited = @ + 1]
    IN  IF t[n].type \in FunctionTypes /\ funcMetadata = null THEN s1
        ELSE walkChildren(t, t[n].children, s1)

(* a walk that enters only the root and the nodes of the types it records *)
walkTreeKnownOnly(t, n, st) ==
  IF st.thrown THEN st
  ELSE IF st.visited + 1 = st.failAt THEN [st EXCEPT !.thrown = TRUE]
  ELSE
    LET a0 == st.analysis
        funcMetadata == extractFunctionMetadata(t, n)
        a1 == IF t[n].type \in FunctionTypes /\ funcMetadata # null
              THEN [a0 EXCEPT !.functions = Append(@, funcMetadata)]
              ELSE a0
        a2 == IF t[n].type \in ClassTypes /\ t[n].name # ""
              THEN [a1 EXCEPT !.classes = Append(@, t[n].name)]
              ELSE a1
        a3 == IF t[n].type \in ImportTypes /\ getNodeText(t, n) # <<>>
              THEN [a2 EXCEPT !.imports = Append(@, getNodeText(t, n))]
              ELSE a2
        s1 == [st EXCEPT !.analysis = a3, !.visited = @ + 1]
    IN  IF n = Root \/ t[n].type \in FunctionTypes \cup ClassTypes \cup ImportTypes
        THEN walkChildren(t, t[n].children, s1)
        ELSE s1

(* a walk that records a class name once *)
walkTreeDistinctClasses(t, n, st) ==
  IF st.thrown THEN st
  ELSE IF st.visited + 1 = st.failAt THEN [st EXCEPT !.thrown = TRUE]
  ELSE
    LET a0 == st.analysis
        funcMetadata == extractFunctionMetadata(t, n)
        a1 == IF t[n].type \in FunctionTypes /\ funcMetadata # null
              THEN [a0 EXCEPT !.functions = Append(@, funcMetadata)]
              ELSE a0
        a2 == IF t[n].type \in ClassTypes /\ t[n].name # ""
                   /\ \A i \in DOMAIN a1.classes : a1.classes[i] # t[n].name
              THEN [a1 EXCEPT !.classes = Append(@, t[n].name)]
              ELSE a1
        a3 == IF t[n].type \in ImportTypes /\ getNodeText(t, n) # <<>>
              THEN [a2 EXCEPT !.imports = Append(@, getNodeText(t, n))]
              ELSE a2
    IN  walkChildren(t, t[n].children,
                     [st EXCEPT !.analysis = a3, !.visited = @ + 1])

(* a loop over the children from the last to the first *)
walkChildrenReversed(t, cs, st) ==
  IF cs = <<>> THEN st
  ELSE walkTree(t, Head(cs), walkChildren(t, Tail(cs), st))

(* walkTree on node n.  st carries the FileAnalysis being filled, the      *)
(* number of nodes visited so far, the visit at which the walk raises an   *)
(* exception (NoFail: never) and whether it has been raised.               *)
walkTree(t, n, st) ==
  IF st.thrown THEN st
  ELSE IF st.visited + 1 = st.failAt THEN [st EXCEPT !.thrown = TRUE]
  ELSE
    LET a0 == st.analysis
        funcMetadata == extractFunctionMetadata(t, n)
        a1 == IF t[n].type \in FunctionTypes /\ funcMetadata # null
              THEN [a0 EXCEPT !.functions = Append(@, funcMetadata)]
              ELSE a0
        a2 == IF t[n].type \in ClassTypes /\ t[n].name # ""
              THEN [a1 EXCEPT !.classes = Append(@, t[n].name)]
              ELSE a1
        a3 == IF t[n].type \in ImportTypes /\ getNodeText(t, n) # <<>>
              THEN [a2 EXCEPT !.imports = Append(@, getNodeText(t, n))]
              ELSE a2
    IN  walkChildren(t, t[n].children,
                     [st EXCEPT !.analysis = a3, !.visited = @ + 1])

walkChildren(t, cs, st) ==
  IF cs = <<>> THEN st
  ELSE walkChildren(t, Tail(cs), walkTree(t, Head(cs), st))

(* a parseFile that returns what the walk had filled when it raised *)
parseFilePartial(map, t, language, failAt) ==
  IF language \notin DOMAIN map THEN null
  ELSE IF failAt = 0 THEN null
  ELSE walkTree(t, Root,
                [analysis |-> EmptyAnalysis(language),
                 visited |-> 0, failAt |-> failAt,
                 thrown |-> FALSE]).analysis

(* ASTParser.parseFile.  failAt = 0: parser.parse raises; failAt = k > 0:  *)
(* the walk raises at its k-th visit; NoFail: nothing raises.              *)
parseFile(map, t, language, failAt) ==
  IF language \notin DOMAIN map THEN null
  ELSE IF failAt = 0 THEN null
  ELSE LET st == walkTree(t, Root,
                          [analysis |-> EmptyAnalysis(language),
                           visited |-> 0, failAt |-> failAt,
                           thrown |-> FALSE])
       IN  IF st.thrown THEN null ELSE st.analysis

-----------------------------------------------------------------------------
(* The buffer: source text is typed at the end of the buffer, so a new     *)
(* node becomes the last child of a node on the rightmost path of the tree *)

RECURSIVE RightPath(_, _)
RightPath(t, n) ==
  {n} \cup (IF t[n].children = <<>> THEN {}
            ELSE RightPath(t, t[n].children[Len(t[n].children)]))

(* the tree after a node of the given kind is typed as last child of p; it *)
(* starts on a new line, and the nodes that enclose it now end on its row  *)
Typed(t, p, kind) ==
  LET id  == Len(t) + 1
      row == Len(t) - 1
      enclosing == {a \in RightPath(t, Root) : a <= p}
  IN  Append([i \in 1..Len(t) |->
                IF i \in enclosing
                THEN [t[i] EXCEPT !.endRow = row,
                                  !.children = IF i = p THEN Append(@, id) ELSE @]
                ELSE t[i]],
             [kind EXCEPT !.startRow = row, !.endRow = row])

WalkKinds ==
  {Node("function_declaration", "a", <<"function", "a", "(", ")", "{", "}">>),
   Node("method_declaration", "b", <<"void", "b", "(", ")", "{", "}">>),
   Node("function_declaration", "", <<"function", "(", ")", "{", "}">>),
   Node("class_declaration", "C", <<"class", "C", "{", "}">>),
   Node("class_declaration", "", <<"class", "{", "}">>),
   Node("import_declaration", "", <<"import", "x", ";">>),
   Node("import_statement", "", <<"import", "y">>),
   Node("if_statement", "", <<"if", "(", "c", ")", "{", "}">>),
   Node("block", "", <<"{", "}">>)}

ScoreKinds ==
  {Node("function_declaration", "a", <<"function", "a", "(", ")", "{", "}">>),
   Node("method_declaration", "b", <<"void", "b", "(", ")", "{", "}">>),
   Node("if_statement", "", <<"if", "(", "c", ")", "{", "}">>),
   Node("for_statement", "", <<"for", "(", ";", ";", ")", "{", "}">>),
   Node("while_statement", "", <<"while", "(", "c", ")", "{", "}">>),
   Node("case", "", <<"case">>),
   Node("catch", "", <<"catch">>),
   Node("block", "", <<"{", "}">>)}

LanguageIds == {"java", "plaintext"}

AddNode(p, kind) ==
  /\ call = NoCall
  /\ Len(nodes) <= MaxNodes
  /\ p \in RightPath(nodes, Root)
  /\ nodes' = Typed(nodes, p, kind)
  /\ UNCHANGED <<call, analysis, indexVars, restVars>>

EditWalk == \E p \in 1..(MaxNodes + 1), kind \in WalkKinds : AddNode(p, kind)

EditScore == \E p \in 1..(MaxNodes + 1), kind \in ScoreKinds : AddNode(p, kind)

(* a method declaration whose parameter list has not been typed yet *)
MethodB == Node("method_declaration", "b", <<"void", "b", "(", ")", "{", "}">>)

BufferNoList == Typed(<<RootNode>>, Root, WithType("void", MethodB))

BufferEmptyList ==
  Typed(BufferNoList, 2,
        InField("parameters", Node("formal_parameters", "", <<"(", ")">>)))

(* what can stand in a parameter list: typed and untyped parameters, a     *)
(* variable-arity parameter, a TypeScript parameter and the comma          *)
ParamKinds ==
  {WithType("int", Node("formal_parameter", "x", <<"int", "x">>)),
   Node("parameter", "y", <<"y">>),
   Node("spread_parameter", "", <<"String", "...", "r">>),
   Node("required_parameter", "", <<"z", ":", "number">>),
   Node(",", "", <<",">>)}

(* one more child is typed into the parameter list of the method *)
TypeParam ==
  \E kind \in ParamKinds :
    /\ call = NoCall
    /\ Len(nodes) >= 3
    /\ nodes[3].type = "formal_parameters"
    /\ Len(nodes[3].children) < MaxParams
    /\ nodes' = Typed(nodes, 3, kind)
    /\ UNCHANGED <<call, analysis, indexVars, restVars>>

FindKinds ==
  {Node("function_declaration", "a", <<"function", "a", "(", ")", "{", "}">>),
   Node("method_declaration", "b", <<"void", "b", "(", ")", "{", "}">>),
   Node("function_declaration", "", <<"function", "(", ")", "{", "}">>),
   Node("block", "", <<"{", "}">>)}

(* declarations with modifier lists: one keyword, another modifier, a      *)
(* keyword followed by an annotation whose argument is another keyword,    *)
(* two keywords, and an annotation that is not a modifiers node            *)
VisKinds ==
  {Node("method_declaration", "b", <<"void", "b", "(", ")", "{", "}">>),
   Node("modifiers", "", <<"public">>),
   Node("modifiers", "", <<"private">>),
   Node("modifiers", "", <<"protected">>),
   Node("modifiers", "", <<"static">>),
   Node("modifiers", "", <<"private", "@Named", "(", "public", ")">>),
   Node("modifiers", "", <<"protected", "static", "private">>),
   Node("marker_annotation", "", <<"@", "public">>)}

EditVis == \E p \in 1..(MaxNodes + 1), kind \in VisKinds : AddNode(p, kind)

(* class declarations of two names and without a name, with a block to    *)
(* nest them in                                                            *)
ClassKinds ==
  {Node("class_declaration", "C", <<"class", "C", "{", "}">>),
   Node("class_declaration", "D", <<"class", "D", "{", "}">>),
   Node("class_declaration", "", <<"class", "{", "}">>),
   Node("method_declaration", "b", <<"void", "b", "(", ")", "{", "}">>),
   Node("block", "", <<"{", "}">>)}

EditClass == \E p \in 1..(MaxNodes + 1), kind \in ClassKinds : AddNode(p, kind)

EditFind == \E p \in 1..(MaxNodes + 1), kind \in FindKinds : AddNode(p, kind)

(* a find that keeps the last function whose range holds the line *)
RECURSIVE findLastEnclosing(_, _)
findLastEnclosing(functions, currentLine) ==
  IF functions = <<>> THEN undefined
  ELSE LET f == functions[Len(functions)]
       IN  IF currentLine >= f.lineStart /\ currentLine <= f.lineEnd THEN f
           ELSE findLastEnclosing(SubSeq(functions, 1, Len(functions) - 1),
                                  currentLine)

(* a find whose range leaves out the last line of the function *)
RECURSIVE findBeforeEnd(_, _)
findBeforeEnd(functions, currentLine) ==
  IF functions = <<>> THEN undefined
  ELSE LET f == Head(functions)
       IN  IF currentLine >= f.lineStart /\ currentLine < f.lineEnd THEN f
           ELSE findBeforeEnd(Tail(functions), currentLine)

(* analysis.functions.find(f => currentLine >= f.lineStart &&              *)
(*                              currentLine <= f.lineEnd)                  *)
RECURSIVE findEnclosing(_, _)
findEnclosing(functions, currentLine) ==
  IF functions = <<>> THEN undefined
  ELSE LET f == Head(functions)
       IN  IF currentLine >= f.lineStart /\ currentLine <= f.lineEnd THEN f
           ELSE findEnclosing(Tail(functions), currentLine)

(* document.fileName of the buffer *)
BufferFileName == <<"ws", "Buffer.java">>

(* extractCurrentFunctionMetadata with no active editor *)
CurrentNoEditor ==
  /\ call = NoCall
  /\ current = NoCall
  /\ current' = null
  /\ UNCHANGED <<treeVars, indexVars, registry, loaded, cursor, lookup, uiVars>>

(* extractCurrentFunctionMetadata with the buffer in the active editor and *)
(* the cursor on the given 0-based line                                    *)
CurrentFunction ==
  \E language \in LanguageIds, failAt \in {NoFail} \cup (0..Len(nodes)),
     line \in 0..Len(nodes) :
    LET a == parseFile(initializeParsers(loaded), nodes, language, failAt)
        currentLine == line + 1
    IN  /\ call = NoCall
        /\ current = NoCall
        /\ call' = [language |-> language, failed |-> failAt # NoFail]
        /\ analysis' = a
        /\ cursor' = line
        /\ current' = IF a = null THEN null
                      ELSE [function |-> findEnclosing(a.functions, currentLine),
                            fileAnalysis |-> a,
                            fileName |-> BufferFileName]
        /\ UNCHANGED <<nodes, indexVars, registry, loaded, lookup, uiVars>>

(* parseFile is called on the buffer with one of the given language ids *)
ParseFileIn(ids) ==
  \E language \in ids, failAt \in {NoFail} \cup (0..Len(nodes)) :
    /\ call = NoCall
    /\ loaded # NotConstructed
    /\ call' = [language |-> language, failed |-> failAt # NoFail]
    /\ analysis' = parseFile(registry, nodes, language, failAt)
    /\ UNCHANGED <<nodes, indexVars, restVars>>

ParseFile == ParseFileIn(LanguageIds)

(* the language ids a document can have: those of the four grammars and    *)
(* one no grammar knows                                                    *)
DocumentLanguageIds ==
  {"java", "javascript", "javascriptreact", "typescript", "typescriptreact",
   "python", "plaintext"}

ParseAnyLanguage == ParseFileIn(DocumentLanguageIds)

(* new ASTParser(): initializeParsers runs with the grammars that load *)
Construct ==
  \E available \in SUBSET Grammars :
    /\ loaded = NotConstructed
    /\ loaded' = available
    /\ registry' = initializeParsers(available)
    /\ UNCHANGED <<treeVars, indexVars, cursor, current, lookup, uiVars>>

-----------------------------------------------------------------------------
(* The workspace *)

Paths == {<<"ws", "A.java">>, <<"ws", "src", "B.java">>}

(* path.basename *)
basename(p) == p[Len(p)]

(* function a with one if, then method b *)
SourceAB ==
  Typed(Typed(Typed(<<RootNode>>, Root,
                    Node("function_declaration", "a", <<"function", "a", "(", ")", "{", "}">>)),
              2, Node("if_statement", "", <<"if", "(", "c", ")", "{", "}">>)),
        Root, Node("method_declaration", "b", <<"void", "b", "(", ")", "{", "}">>))

(* class C with method b *)
SourceC ==
  Typed(Typed(<<RootNode>>, Root, Node("class_declaration", "C", <<"class", "C", "{", "}">>)),
        2, Node("method_declaration", "b", <<"void", "b", "(", ")", "{", "}">>))

File(present, readable, languageId, code, failAt) ==
  [present |-> present, readable |-> readable, languageId |-> languageId,
   code |-> code, failAt |-> failAt]

(* the states a file of the workspace can be in: sound with either source, *)
(* deleted, unreadable, of a language without parser, or making the parser *)
(* or the walk raise                                                       *)
FileStates ==
  {File(TRUE, TRUE, "java", SourceAB, NoFail),
   File(TRUE, TRUE, "java", SourceC, NoFail),
   File(FALSE, TRUE, "java", SourceAB, NoFail),
   File(TRUE, FALSE, "java", SourceAB, NoFail),
   File(TRUE, TRUE, "plaintext", SourceAB, NoFail),
   File(TRUE, TRUE, "java", SourceAB, 0),
   File(TRUE, TRUE, "java", SourceAB, 2)}

(* the orders in which findFiles can list the files of S *)
Listings(S) ==
  {q \in [1..Cardinality(S) -> S] :
     \A i, j \in 1..Cardinality(S) : i # j => q[i] # q[j]}

-----------------------------------------------------------------------------
(* CodebaseIndexer *)

(* the index a CodebaseIndexer is constructed with; files is the Map in    *)
(* insertion order                                                         *)
EmptyIndex == [files |-> <<>>, totalFunctions |-> 0, totalClasses |-> 0]

Keys(files) == {files[i].path : i \in DOMAIN files}

(* a set that, for a key already present, keeps the functions of the old   *)
(* value in front of those of the new one                                  *)
MapSetMerging(files, k, v) ==
  IF k \in Keys(files)
  THEN [i \in DOMAIN files |->
          IF files[i].path = k
          THEN [path |-> k,
                analysis |-> [v EXCEPT !.functions =
                                files[i].analysis.functions \o @]]
          ELSE files[i]]
  ELSE Append(files, [path |-> k, analysis |-> v])

(* Map.prototype.set: replaces the value of a key in place, else appends *)
MapSet(files, k, v) ==
  IF k \in Keys(files)
  THEN [i \in DOMAIN files |->
          IF files[i].path = k THEN [path |-> k, analysis |-> v] ELSE files[i]]
  ELSE Append(files, [path |-> k, analysis |-> v])

(* what parseFile returns to indexFile for file f, null also when          *)
(* openTextDocument rejects and parseFile is not reached                   *)
Parsed(f) ==
  IF ~f.present \/ ~f.readable THEN null
  ELSE parseFile(parsers, f.code, f.languageId, f.failAt)

(* what indexFile hands to Map.set for file f at path p, null if it does   *)
(* not get there: openTextDocument rejects or parseFile returns null       *)
Indexed(p, f) ==
  IF ~f.present \/ ~f.readable THEN null
  ELSE LET a == parseFile(parsers, f.code, f.languageId, f.failAt)
       IN  IF a = null THEN null ELSE [a EXCEPT !.fileName = basename(p)]

(* an indexFile that records an empty analysis when parseFile gives none *)
indexFileEmptyOnNull(ix, p, f) ==
  LET a == Indexed(p, f)
      b == IF a = null THEN EmptyAnalysis(f.languageId) ELSE a
  IN  IF ~f.present \/ ~f.readable THEN ix
      ELSE [files |-> MapSet(ix.files, p, b),
            totalFunctions |-> ix.totalFunctions + Len(b.functions),
            totalClasses |-> ix.totalClasses + Len(b.classes)]

(* an indexFile that assigns the counts of the file to the totals *)
indexFileAssignsTotals(ix, p, f) ==
  LET a == Indexed(p, f)
  IN  IF a = null THEN ix
      ELSE [files |-> MapSet(ix.files, p, a),
            totalFunctions |-> Len(a.functions),
            totalClasses |-> Len(a.classes)]

(* CodebaseIndexer.indexFile *)
indexFile(ix, p, f) ==
  LET a == Indexed(p, f)
  IN  IF a = null THEN ix
      ELSE [files |-> MapSet(ix.files, p, a),
            totalFunctions |-> ix.totalFunctions + Len(a.functions),
            totalClasses |-> ix.totalClasses + Len(a.classes)]

(* indexWorkspace is called with no workspace folder open *)
ScanNoFolder ==
  /\ pc # "scanning"
  /\ scans < MaxScans
  /\ scans' = scans + 1
  /\ pc' = "nofolder"
  /\ queue' = <<>>
  /\ scanned' = <<>>
  /\ UNCHANGED <<workspace, index, everOk, treeVars, restVars>>

(* indexWorkspace is called and findFiles rejects *)
ScanListFails ==
  /\ pc # "scanning"
  /\ scans < MaxScans
  /\ scans' = scans + 1
  /\ pc' = "threw"
  /\ queue' = <<>>
  /\ scanned' = <<>>
  /\ UNCHANGED <<workspace, index, everOk, treeVars, restVars>>

(* indexWorkspace is called and findFiles lists the files present *)
ScanStart ==
  /\ pc # "scanning"
  /\ scans < MaxScans
  /\ scans' = scans + 1
  /\ pc' = "scanning"
  /\ \E q \in Listings({p \in Paths : workspace[p].present}) : queue' = q
  /\ scanned' = <<>>
  /\ UNCHANGED <<workspace, index, everOk, treeVars, restVars>>

(* one turn of the loop of indexWorkspace: indexFile on the next file *)
IndexFile ==
  /\ pc = "scanning"
  /\ queue # <<>>
  /\ LET p == Head(queue)
         ok == Indexed(p, workspace[p]) # null
     IN  /\ index' = indexFile(index, p, workspace[p])
         /\ scanned' = Append(scanned, [path |-> p, ok |-> ok,
                                        parsed |-> Parsed(workspace[p])])
         /\ everOk' = IF ok THEN everOk \cup {p} ELSE everOk
  /\ queue' = Tail(queue)
  /\ UNCHANGED <<workspace, pc, scans, treeVars, restVars>>

(* the loop is over: indexWorkspace returns this.index *)
ScanReturn ==
  /\ pc = "scanning"
  /\ queue = <<>>
  /\ pc' = "returned"
  /\ UNCHANGED <<workspace, index, queue, scanned, everOk, scans, treeVars, restVars>>

(* a findFunction that keeps the last file that has the function *)
RECURSIVE findFunctionLast(_, _)
findFunctionLast(files, functionName) ==
  IF files = <<>> THEN null
  ELSE LET a == files[Len(files)].analysis
       IN  IF \E i \in DOMAIN a.functions : a.functions[i].name = functionName
           THEN a
           ELSE findFunctionLast(SubSeq(files, 1, Len(files) - 1), functionName)

(* CodebaseIndexer.findFunction over the entries of index.files in the     *)
(* order of the Map                                                        *)
RECURSIVE findFunction(_, _)
findFunction(files, functionName) ==
  IF files = <<>> THEN null
  ELSE LET a == Head(files).analysis
       IN  IF \E i \in DOMAIN a.functions : a.functions[i].name = functionName
           THEN a
           ELSE findFunction(Tail(files), functionName)

(* the names findFunction is asked for: one that both sources define and   *)
(* one that none defines                                                   *)
QueryNames == {"b", "zz"}

(* findFunction is called *)
FindFunction ==
  \E functionName \in QueryNames :
    /\ lookup' = [name |-> functionName,
                  result |-> findFunction(index.files, functionName)]
    /\ UNCHANGED <<indexVars, treeVars, registry, loaded, cursor, current, uiVars>>

(* a file of the workspace is edited, deleted, created or locked *)
ChangeFile ==
  \E p \in Paths, f \in FileStates :
    /\ f # workspace[p]
    /\ workspace' = [workspace EXCEPT ![p] = f]
    /\ UNCHANGED <<index, pc, queue, scanned, everOk, scans, treeVars, restVars>>

-----------------------------------------------------------------------------
(* The extension: activation and the aiDevAssistant.runCommand command *)

NotActivated == [activated |-> FALSE]

(* what showInformationMessage resolves to: the button chosen, or          *)
(* undefined when the modal dialog is dismissed                            *)
NotAsked == "not asked"
Dismissed == "undefined"
Answers == {"Run Command", "Cancel", Dismissed}

(* the command texts the webview sends *)
CommandTexts == {"ls", "rm"}

(* the two activate functions of the sources: the one of extension.ts      *)
(* registers indexCodebase and generateTest and builds the chat provider   *)
(* with isTrusted true; the one that registers runCommand captures         *)
(* vscode.workspace.isTrusted once                                         *)
activate(variant, workspaceTrusted) ==
  IF variant = "extension.ts"
  THEN [commands |-> {"aiDevAssistant.indexCodebase", "aiDevAssistant.generateTest"},
        isTrusted |-> TRUE]
  ELSE [commands |-> {"aiDevAssistant.openChat", "aiDevAssistant.showDiff",
                      "aiDevAssistant.runCommand"},
        isTrusted |-> workspaceTrusted]

Activate ==
  \E variant \in {"extension.ts", "part_001"} :
    /\ activation = NotActivated
    /\ activation' = activate(variant, wsTrusted)
    /\ UNCHANGED <<wsTrusted, received, dialogs, confirmation, terminal,
                   codeVars, reportVars, chatVars>>

(* the user grants trust to the workspace; the extension does not listen   *)
GrantTrust ==
  /\ ~wsTrusted
  /\ wsTrusted' = TRUE
  /\ UNCHANGED <<activation, received, dialogs, confirmation, terminal,
                 codeVars, reportVars, chatVars>>

(* a runCommand handler that opens the dialog whatever the trust *)
runCommandCommandNoTrust(act, pending, command) ==
  IF "aiDevAssistant.runCommand" \notin act.commands THEN pending
  ELSE Append(pending, command)

(* _handleRunCommand and the first half of the runCommand command, up to   *)
(* the await of the modal dialog: the dialogs awaited afterwards.          *)
(* executeCommand rejects for a command that is not registered.            *)
runCommandCommand(act, pending, command) ==
  IF "aiDevAssistant.runCommand" \notin act.commands THEN pending
  ELSE IF ~act.isTrusted THEN pending
  ELSE Append(pending, command)

(* the webview posts a runCommand message *)
RunCommand ==
  \E command \in CommandTexts :
    /\ activation # NotActivated
    /\ received < MaxCommands
    /\ received' = received + 1
    /\ dialogs' = runCommandCommand(activation, dialogs, command)
    /\ UNCHANGED <<activation, wsTrusted, confirmation, terminal,
                   codeVars, reportVars, chatVars>>

(* the user answers or dismisses the oldest dialog; the second half of the *)
(* runCommand command                                                      *)
AnswerDialog ==
  \E answer \in Answers :
    /\ dialogs # <<>>
    /\ confirmation' = answer
    /\ terminal' = IF answer = "Run Command"
                   THEN Append(terminal, Head(dialogs))
                   ELSE terminal
    /\ dialogs' = Tail(dialogs)
    /\ UNCHANGED <<activation, wsTrusted, received,
                   codeVars, reportVars, chatVars>>

-----------------------------------------------------------------------------
(* The aiDevAssistant.indexCodebase command *)

NoReport == [kind |-> "none"]

(* showErrorMessage and showInformationMessage of the command *)
ErrorMessage(text) == [kind |-> "error", text |-> text]

InformationMessage(ix) ==
  [kind |-> "information", functions |-> ix.totalFunctions,
   files |-> Len(ix.files)]

(* a command that keeps one indexer for all its invocations *)
indexerOfCommandShared(ix) == ix

(* the index of the indexer an invocation scans with, ix being the index   *)
(* the invocation before it has built: new CodebaseIndexer()               *)
indexerOfCommand(ix) == EmptyIndex

(* what every invocation does first *)
Invoke ==
  /\ pc # "scanning"
  /\ runs < MaxRuns
  /\ runs' = runs + 1
  /\ before' = report
  /\ changedPrev' = changedCur
  /\ changedCur' = FALSE
  /\ index' = indexerOfCommand(index)
  /\ everOk' = {}
  /\ scanned' = <<>>

(* the command is invoked with no workspace folder open *)
IndexCommandNoFolder ==
  /\ Invoke
  /\ scans' = 0
  /\ pc' = "nofolder"
  /\ queue' = <<>>
  /\ report' = ErrorMessage("Open a folder or workspace first.")
  /\ UNCHANGED <<workspace, treeVars, registry, loaded, cursor, current, lookup,
                 commandVars, chatVars>>

(* the command is invoked and findFiles rejects: the catch of the command  *)
IndexCommandListFails ==
  /\ Invoke
  /\ scans' = 1
  /\ pc' = "caught"
  /\ queue' = <<>>
  /\ report' = ErrorMessage("Failed to index workspace.")
  /\ UNCHANGED <<workspace, treeVars, registry, loaded, cursor, current, lookup,
                 commandVars, chatVars>>

(* the command is invoked and findFiles lists the files present *)
IndexCommandStart ==
  /\ Invoke
  /\ scans' = 1
  /\ pc' = "scanning"
  /\ \E q \in Listings({p \in Paths : workspace[p].present}) : queue' = q
  /\ report' = NoReport
  /\ UNCHANGED <<workspace, treeVars, registry, loaded, cursor, current, lookup,
                 commandVars, chatVars>>

(* indexWorkspace returns and the command shows the counts *)
IndexCommandReport ==
  /\ pc = "scanning"
  /\ queue = <<>>
  /\ runs > 0
  /\ pc' = "returned"
  /\ report' = InformationMessage(index)
  /\ UNCHANGED <<workspace, index, queue, scanned, everOk, scans, treeVars,
                 registry, loaded, cursor, current, lookup, commandVars, chatVars,
                 runs, before, changedCur, changedPrev>>

(* a file of the workspace changes while the command is in use *)
WorkspaceChanges ==
  \E p \in Paths, f \in FileStates :
    /\ f # workspace[p]
    /\ workspace' = [workspace EXCEPT ![p] = f]
    /\ changedCur' = TRUE
    /\ UNCHANGED <<index, pc, queue, scanned, everOk, scans, treeVars,
                   registry, loaded, cursor, current, lookup, commandVars, chatVars,
                   runs, report, before, changedPrev>>

-----------------------------------------------------------------------------
(* ChatViewProvider: the code context of a chat message *)

(* _extractFunctionCode: the rows of the document from lineStart to        *)
(* lineEnd; the document has one row per node below the root               *)
extractFunctionCode(t, lineStart, lineEnd) ==
  {r \in 0..(Len(t) - 2) : lineStart - 1 <= r /\ r < lineEnd}

(* the functions of fs whose name is not the given one *)
OtherThan(fs, name) == SelectSeq(fs, LAMBDA f : f.name # name)

(* the context built from the analysis a, the cursor in currentFunction or *)
(* in none (undefined)                                                     *)
enhancedContext(a, t, language, currentFunction) ==
  LET related == IF currentFunction = undefined THEN a.functions
                 ELSE OtherThan(a.functions, currentFunction.name)
  IN  [type |-> "enhanced",
       fileName |-> basename(BufferFileName),
       language |-> language,
       totalFunctions |-> Len(a.functions),
       totalClasses |-> Len(a.classes),
       imports |-> a.imports,
       currentFunction |->
         IF currentFunction = undefined THEN null
         ELSE [name |-> currentFunction.name,
               signature |-> currentFunction.signature,
               params |-> currentFunction.params,
               returnType |-> currentFunction.returnType,
               complexity |-> currentFunction.complexity,
               lineStart |-> currentFunction.lineStart,
               lineEnd |-> currentFunction.lineEnd,
               code |-> extractFunctionCode(t, currentFunction.lineStart,
                                            currentFunction.lineEnd)],
       relatedFunctions |->
         [i \in 1..(IF Len(related) < 3 THEN Len(related) ELSE 3) |->
            [name |-> related[i].name,
             signature |-> related[i].signature,
             complexity |-> related[i].complexity]],
       classes |-> a.classes]

(* a context that gives up when the file cannot be analysed *)
contextOfNoFallback(a, t, language, line) ==
  IF a = null THEN null
  ELSE enhancedContext(a, t, language, findEnclosing(a.functions, line + 1))

(* what _getEnhancedCodeContext returns once parseFile has returned a: the *)
(* basic context with the whole text when a is null                        *)
contextOf(a, t, language, line) ==
  IF a = null
  THEN [type |-> "basic",
        fileName |-> basename(BufferFileName),
        language |-> language,
        fullCode |-> t]
  ELSE enhancedContext(a, t, language, findEnclosing(a.functions, line + 1))

(* ChatViewProvider._getEnhancedCodeContext.  editor: there is an active   *)
(* editor; t: the text of its document; line: the 0-based cursor line.     *)
getEnhancedCodeContext(map, editor, t, language, failAt, line) ==
  IF ~editor THEN null
  ELSE contextOf(parseFile(map, t, language, failAt), t, language, line)

(* the prompt _handleChatMessage builds: the message alone without a       *)
(* context, else by the type of the context                                *)
promptOf(codeContext) ==
  IF codeContext = null THEN "message" ELSE codeContext.type

(* _getEnhancedCodeContext is called with the buffer in the active editor  *)
ChatContext ==
  \E language \in LanguageIds, failAt \in {NoFail} \cup (0..Len(nodes)),
     line \in 0..Len(nodes) :
    /\ context = NoCall
    /\ context' = [language |-> language, failed |-> failAt # NoFail,
                   code |-> nodes,
                   result |-> getEnhancedCodeContext(registry, TRUE, nodes,
                                                     language, failAt, line)]
    /\ UNCHANGED <<codeVars, commandVars, reportVars, chats, posted>>

(* one turn of the loop of indexWorkspace on the file of the buffer, which *)
(* may be unreadable                                                       *)
IndexBufferFile ==
  \E readable \in BOOLEAN, language \in LanguageIds,
     failAt \in {NoFail} \cup (0..Len(nodes)) :
    LET f == File(TRUE, readable, language, nodes, failAt)
        ok == Indexed(BufferFileName, f) # null
    IN  /\ pc = "idle"
        /\ scanned = <<>>
        /\ index' = indexFile(index, BufferFileName, f)
        /\ scanned' = <<[path |-> BufferFileName, ok |-> ok, parsed |-> Parsed(f)]>>
        /\ everOk' = IF ok THEN everOk \cup {BufferFileName} ELSE everOk
        /\ UNCHANGED <<workspace, pc, queue, scans, treeVars, restVars>>

(* buffers of functions, side by side and nested *)
CallerKinds ==
  {Node("function_declaration", "a", <<"function", "a", "(", ")", "{", "}">>)}

EditCaller == \E p \in 1..(MaxNodes + 1), kind \in CallerKinds : AddNode(p, kind)

-----------------------------------------------------------------------------
(* aiService: askLLM *)

(* how axios.post can end: a response whose data has a content, is an      *)
(* object without content, is a string, or is null; an AxiosError with the *)
(* status of its response, 0 when there is no response (timeout, network); *)
(* an Error; a thrown value that is not an Error                           *)
Outcome(kind, data, status) == [kind |-> kind, data |-> data, status |-> status]

Outcomes ==
  {Outcome("response", d, 200) : d \in {"content", "object", "string", "null"}}
    \cup {Outcome("axios", "", st) : st \in {401, 429, 500, 502, 503, 404, 0}}
    \cup {Outcome("error", "", 0), Outcome("thrown", "", 0)}

(* the try block of askLLM: reading data.tokens of a null data raises *)
tryPost(outcome) ==
  IF outcome.kind # "response" THEN [threw |-> TRUE, error |-> outcome]
  ELSE IF outcome.data = "null"
  THEN [threw |-> TRUE, error |-> Outcome("error", "", 0)]
  ELSE [threw |-> FALSE,
        value |-> IF outcome.data = "content" THEN <<"answer">>
                  ELSE IF outcome.data = "object" THEN <<"{", "}">>
                  ELSE <<"plain", "answer">>]

(* handleLLMError *)
handleLLMError(error) ==
  IF error.kind = "axios"
  THEN CASE error.status = 401 -> <<"Authentication", "failed">>
         [] error.status = 429 -> <<"Rate", "limit", "exceeded">>
         [] error.status \in {500, 502, 503} -> <<"Backend", "unavailable">>
         [] OTHER -> <<"API", "Error",
                       IF error.status = 0 THEN "unknown" ELSE "status">>
  ELSE <<"Error:", IF error.kind = "error" THEN "message"
                   ELSE "Unknown error occurred">>

Resolved(value) == [rejected |-> FALSE, value |-> value]
Rejected(message) == [rejected |-> TRUE, value |-> message]

(* an askLLM that handles the errors of axios only *)
askLLMAxiosOnly(outcome) ==
  LET r == tryPost(outcome)
  IN  IF ~r.threw THEN Resolved(r.value)
      ELSE IF r.error.kind = "axios" THEN Resolved(handleLLMError(r.error))
      ELSE Rejected("message")

(* askLLM: what its promise settles to *)
askLLM(outcome) ==
  LET r == tryPost(outcome)
  IN  IF r.threw THEN Resolved(handleLLMError(r.error)) ELSE Resolved(r.value)

-----------------------------------------------------------------------------
(* ChatViewProvider._handleChatMessage *)

IdleChat == [pc |-> "idle"]

Thinking(h, on) ==
  [chat |-> h, type |-> "assistantThinking", thinking |-> on, text |-> <<>>]

AssistantMessage(h, text) ==
  [chat |-> h, type |-> "assistantMessage", thinking |-> FALSE, text |-> text]

(* a catch branch that posts the message only *)
catchBranchMessageOnly(h, message) ==
  <<AssistantMessage(h, <<"Error:", IF message = "" THEN "Failed to get response from AI"
                                    ELSE message>>)>>

(* the catch branch of _handleChatMessage: what it posts *)
catchBranch(h, message) ==
  <<Thinking(h, FALSE),
    AssistantMessage(h, <<"Error:", IF message = "" THEN "Failed to get response from AI"
                                    ELSE message>>)>>

(* a sendMessage arrives: the handler posts the indicator, gathers the     *)
(* code context, which the editor API may make raise, builds the prompt    *)
(* and calls askLLM                                                        *)
ChatStart ==
  \E h \in 1..MaxChats, editor \in BOOLEAN, language \in LanguageIds,
     failAt \in {NoFail} \cup (0..Len(nodes)), raises \in {"no", "", "message"} :
    LET codeContext == getEnhancedCodeContext(registry, editor, nodes, language,
                                              failAt, cursor)
    IN  /\ chats[h].pc = "idle"
        /\ \A g \in 1..(h - 1) : chats[g].pc # "idle"
        /\ IF raises = "no"
           THEN /\ posted' = Append(posted, Thinking(h, TRUE))
                /\ chats' = [chats EXCEPT ![h] =
                               [pc |-> "asking", path |-> "try", asked |-> TRUE,
                                prompt |-> promptOf(codeContext),
                                outcome |-> Outcome("pending", "", 0)]]
           ELSE /\ posted' = Append(posted, Thinking(h, TRUE)) \o catchBranch(h, raises)
                /\ chats' = [chats EXCEPT ![h] =
                               [pc |-> "done", path |-> "catch", asked |-> FALSE,
                                prompt |-> "none",
                                outcome |-> Outcome("pending", "", 0)]]
        /\ UNCHANGED <<codeVars, commandVars, reportVars, context>>

(* the promise of askLLM settles and the handler goes on *)
ChatFinish ==
  \E h \in 1..MaxChats, outcome \in Outcomes :
    LET response == askLLM(outcome)
    IN  /\ chats[h].pc = "asking"
        /\ IF response.rejected
           THEN /\ posted' = posted \o catchBranch(h, response.value)
                /\ chats' = [chats EXCEPT ![h].pc = "done", ![h].path = "catch",
                                          ![h].prompt = "none",
                                          ![h].outcome = outcome]
           ELSE /\ posted' = posted \o <<Thinking(h, FALSE),
                                         AssistantMessage(h, response.value)>>
                /\ chats' = [chats EXCEPT ![h].pc = "done", ![h].prompt = "none",
                                          ![h].outcome = outcome]
        /\ UNCHANGED <<codeVars, commandVars, reportVars, context>>

(* the extension before activation *)
InitUi ==
  /\ activation = NotActivated
  /\ wsTrusted = FALSE
  /\ received = 0
  /\ dialogs = <<>>
  /\ confirmation = NotAsked
  /\ terminal = <<>>
  /\ runs = 0
  /\ report = NoReport
  /\ before = NoReport
  /\ changedCur = FALSE
  /\ changedPrev = FALSE
  /\ context = NoCall
  /\ chats = [h \in 1..MaxChats |-> IdleChat]
  /\ posted = <<>>

-----------------------------------------------------------------------------
(* Specifications *)

Init ==
  /\ nodes = <<RootNode>>
  /\ call = NoCall
  /\ analysis = NotParsed
  /\ workspace = [p \in Paths |-> File(TRUE, TRUE, "java", SourceAB, NoFail)]
  /\ index = EmptyIndex
  /\ pc = "idle"
  /\ queue = <<>>
  /\ scanned = <<>>
  /\ everOk = {}
  /\ scans = 0
  /\ registry = parsers
  /\ loaded = Grammars
  /\ cursor = 0
  /\ current = NoCall
  /\ lookup = NoCall
  /\ InitUi

(* the indexer scanning a changing workspace *)
Next == ScanNoFolder \/ ScanListFails \/ ScanStart \/ IndexFile
          \/ ScanReturn \/ ChangeFile

Spec == Init /\ [][Next]_vars

(* the indexCodebase command invoked again and again on a changing        *)
(* workspace                                                               *)
NextIndexCommand == IndexCommandNoFolder \/ IndexCommandListFails
                      \/ IndexCommandStart \/ IndexFile
                      \/ IndexCommandReport \/ WorkspaceChanges

SpecIndexCommand == Init /\ [][NextIndexCommand]_vars

(* the three callers of parseFile on every small buffer *)
NextCallers == EditCaller \/ CurrentFunction \/ ChatContext \/ IndexBufferFile

SpecCallers == Init /\ [][NextCallers]_vars

(* the webview sending chat messages *)
NextChat == ChatStart \/ ChatFinish

SpecChat == Init /\ [][NextChat]_vars

(* the webview asking for commands to be run *)
NextCommand == Activate \/ GrantTrust \/ RunCommand \/ AnswerDialog

SpecCommand == Init /\ [][NextCommand]_vars

(* the indexer scanning a changing workspace and being queried *)
NextQuery == ScanNoFolder \/ ScanListFails \/ ScanStart \/ IndexFile
               \/ ScanReturn \/ ChangeFile \/ FindFunction

SpecQuery == Init /\ [][NextQuery]_vars

(* parseFile on every small tree of methods and modifier lists *)
NextVis == EditVis \/ ParseFile

SpecVis == Init /\ [][NextVis]_vars

(* parseFile on every small tree of class declarations *)
NextClass == EditClass \/ ParseFile

SpecClass == Init /\ [][NextClass]_vars

(* parseFile on every small tree of declarations and imports *)
NextWalk == EditWalk \/ ParseFile

SpecWalk == Init /\ [][NextWalk]_vars

(* an ASTParser constructed while some grammars fail to load, then asked   *)
(* to parse an empty buffer                                                *)
InitRegistry ==
  /\ nodes = <<RootNode>>
  /\ call = NoCall
  /\ analysis = NotParsed
  /\ workspace = [p \in Paths |-> File(TRUE, TRUE, "java", SourceAB, NoFail)]
  /\ index = EmptyIndex
  /\ pc = "idle"
  /\ queue = <<>>
  /\ scanned = <<>>
  /\ everOk = {}
  /\ scans = 0
  /\ registry = EmptyRegistry
  /\ loaded = NotConstructed
  /\ cursor = 0
  /\ current = NoCall
  /\ lookup = NoCall
  /\ InitUi

NextRegistry == Construct \/ ParseAnyLanguage

SpecRegistry == InitRegistry /\ [][NextRegistry]_vars

(* parseFile on a method with every small parameter list *)
InitParams ==
  /\ nodes \in {BufferNoList, BufferEmptyList}
  /\ call = NoCall
  /\ analysis = NotParsed
  /\ workspace = [p \in Paths |-> File(TRUE, TRUE, "java", SourceAB, NoFail)]
  /\ index = EmptyIndex
  /\ pc = "idle"
  /\ queue = <<>>
  /\ scanned = <<>>
  /\ everOk = {}
  /\ scans = 0
  /\ registry = parsers
  /\ loaded = Grammars
  /\ cursor = 0
  /\ current = NoCall
  /\ lookup = NoCall
  /\ InitUi

NextParams == TypeParam \/ ParseFile

SpecParams == InitParams /\ [][NextParams]_vars

(* the current function asked for on every small tree of functions *)
NextFind == EditFind \/ CurrentNoEditor \/ CurrentFunction

SpecFind == Init /\ [][NextFind]_vars

(* parseFile on every small tree of functions and branching constructs *)
NextScore == EditScore \/ ParseFile

SpecScore == Init /\ [][NextScore]_vars

-----------------------------------------------------------------------------
(* Properties of the indexer, under Spec *)

RECURSIVE SumFunctions(_)
SumFunctions(files) ==
  IF files = <<>> THEN 0
  ELSE Len(Head(files).analysis.functions) + SumFunctions(Tail(files))

RECURSIVE SumClasses(_)
SumClasses(files) ==
  IF files = <<>> THEN 0
  ELSE Len(Head(files).analysis.classes) + SumClasses(Tail(files))

(* C1: after any sequence of indexWorkspace calls on one indexer, the      *)
(* totals equal the sums of functions.length and classes.length over the   *)
(* entries of index.files.                                                 *)
C1_TotalsEqualSums ==
  /\ index.totalFunctions = SumFunctions(index.files)
  /\ index.totalClasses = SumClasses(index.files)

(* the files the current scan has indexed successfully, and those it could *)
(* not index                                                               *)
ScannedOk == {scanned[i].path : i \in {j \in DOMAIN scanned : scanned[j].ok}}

ScannedFailed ==
  {scanned[i].path : i \in {j \in DOMAIN scanned : ~scanned[j].ok}}

(* C2: indexWorkspace never throws to its caller, whichever of file        *)
(* enumeration, reading and parsing fail, and when it returns every        *)
(* enumerated file that did not itself fail has been indexed.              *)
C2_ScanNeverThrows ==
  /\ pc # "threw"
  /\ pc = "returned" => queue = <<>> /\ ScannedOk \subseteq Keys(index.files)

(* C3 as stated: after a scan, a path has an entry in index.files if and   *)
(* only if this scan enumerated, read and parsed it.                       *)
C3_EntryIffParsedInScan ==
  pc = "returned" => Keys(index.files) = ScannedOk

(* C3, amended: after a scan, a path has an entry in index.files if and    *)
(* only if this scan or an earlier scan of the same indexer enumerated,    *)
(* read and parsed it; an indexFile call on a file that cannot be read,    *)
(* has no registered parser or fails to parse leaves the index, entries    *)
(* and totals, as it was.                                                  *)
C3_EntryIffEverParsed ==
  /\ [](pc = "returned" => Keys(index.files) = everOk)
  /\ [][(scanned' # scanned /\ scanned' # <<>>
           /\ ~scanned'[Len(scanned')].ok) => index' = index]_vars

(* a scan has returned after one file failed and another was indexed *)
C3_Witness ==
  /\ pc = "returned"
  /\ ScannedFailed # {}
  /\ ScannedOk # {}
  /\ ScannedFailed \cap Keys(index.files) = {}

-----------------------------------------------------------------------------
(* Properties of parseFile and the walk, under SpecWalk and SpecScore *)

Range(q) == {q[i] : i \in DOMAIN q}

Parent(t, n) == CHOOSE p \in DOMAIN t : n \in Range(t[p].children)

(* m lies in the subtree of n *)
RECURSIVE InSubtree(_, _, _)
InSubtree(t, n, m) ==
  \/ m = n
  \/ m # Root /\ InSubtree(t, n, Parent(t, m))

Subtree(t, n) == {m \in DOMAIN t : InSubtree(t, n, m)}

(* the child indices that lead from the root to n *)
RECURSIVE PathTo(_, _)
PathTo(t, n) ==
  IF n = Root THEN <<>>
  ELSE LET cs == t[Parent(t, n)].children
       IN  Append(PathTo(t, Parent(t, n)), CHOOSE i \in DOMAIN cs : cs[i] = n)

(* a comes before b in the pre-order of the tree *)
Before(t, a, b) ==
  LET pa == PathTo(t, a)
      pb == PathTo(t, b)
  IN  \/ Len(pa) < Len(pb) /\ \A i \in DOMAIN pa : pa[i] = pb[i]
      \/ \E k \in DOMAIN pa \cap DOMAIN pb :
           /\ pa[k] < pb[k]
           /\ \A i \in 1..(k - 1) : pa[i] = pb[i]

FunctionNodes(t) == {n \in DOMAIN t : t[n].type \in FunctionTypes}

NamedFunctions(t) == {n \in FunctionNodes(t) : t[n].name # ""}

UnnamedFunctions(t) == {n \in FunctionNodes(t) : t[n].name = ""}

NamedClasses(t) == {n \in DOMAIN t : t[n].type \in ClassTypes /\ t[n].name # ""}

Imports(t) == {n \in DOMAIN t : t[n].type \in ImportTypes}

(* the node types the classifier counts as branching constructs *)
BranchingConstructs ==
  {"if_statement", "for_statement", "while_statement", "case", "catch"}

Branches(t, S) == {n \in S : t[n].type \in BranchingConstructs}

(* parseFile has returned a FileAnalysis *)
Analysed == call # NoCall /\ analysis # null

(* the function nodes a record of the analysis can come from *)
NodesOf(f) ==
  {n \in FunctionNodes(nodes) :
     nodes[n].name = f.name /\ nodes[n].startRow + 1 = f.lineStart}

(* C4: parseFile returns null for an unregistered language id and for any  *)
(* failure raised while parsing or walking; otherwise it returns a         *)
(* FileAnalysis that holds every named function, named class and import of *)
(* the tree.                                                               *)
C4_ParseFileNullOrComplete ==
  call # NoCall =>
    IF call.language \notin DOMAIN parsers \/ call.failed
    THEN analysis = null
    ELSE /\ analysis # null
         /\ analysis.language = call.language
         /\ Len(analysis.functions) = Cardinality(NamedFunctions(nodes))
         /\ Len(analysis.classes) = Cardinality(NamedClasses(nodes))
         /\ Len(analysis.imports) = Cardinality(Imports(nodes))

(* the walk of a tree with a function, a class and an import has raised *)
C4_Witness ==
  /\ call # NoCall
  /\ call.failed
  /\ call.language \in DOMAIN parsers
  /\ NamedFunctions(nodes) # {}
  /\ NamedClasses(nodes) # {}
  /\ Imports(nodes) # {}
  /\ analysis = null

(* C5: the complexity of a function node is 1 plus the number of branching *)
(* constructs in its subtree; nodes outside the subtree do not count.      *)
C5_ComplexityIsOnePlusBranches ==
  \A n \in FunctionNodes(nodes) :
    calculateComplexity(nodes, n)
      = 1 + Cardinality(Branches(nodes, Subtree(nodes, n)))

(* a scored function has a branching construct inside and one outside *)
C5_Witness ==
  /\ Analysed
  /\ \E n \in NamedFunctions(nodes) :
       /\ Branches(nodes, Subtree(nodes, n)) # {}
       /\ Branches(nodes, DOMAIN nodes \ Subtree(nodes, n)) # {}

(* C6: every FunctionMetadata of a FileAnalysis has complexity >= 1, and   *)
(* exactly 1 when the subtree of its function has no branching construct.  *)
C6_ComplexityAtLeastOne ==
  Analysed =>
    \A i \in DOMAIN analysis.functions :
      LET f == analysis.functions[i]
      IN  /\ f.complexity >= 1
          /\ NodesOf(f) # {}
          /\ \A n \in NodesOf(f) :
               Branches(nodes, Subtree(nodes, n)) = {} => f.complexity = 1

(* the analysis holds a function without branches and one with branches *)
C6_Witness ==
  /\ Analysed
  /\ \E i, j \in DOMAIN analysis.functions :
       /\ analysis.functions[i].complexity = 1
       /\ analysis.functions[j].complexity > 1

(* the buffer has just got a branching construct as a new child of f *)
BranchTypedInto(f) ==
  /\ Len(nodes') = Len(nodes) + 1
  /\ nodes'[Len(nodes')].type \in BranchingConstructs
  /\ Len(nodes') \in Range(nodes'[f].children)

(* C7: adding one if, for, while, case or catch at the top level of a      *)
(* function's body raises that function's complexity by exactly 1.         *)
C7_AddedBranchAddsOne ==
  [][\A f \in FunctionNodes(nodes) :
       BranchTypedInto(f) =>
         calculateComplexity(nodes', f) = calculateComplexity(nodes, f) + 1]_vars

(* a function that already had a branch has got a second one, a case *)
C7_Witness ==
  \E f \in FunctionNodes(nodes) :
    /\ Len(nodes[f].children) = 2
    /\ nodes[nodes[f].children[1]].type \in BranchingConstructs
    /\ nodes[nodes[f].children[2]].type = "case"
    /\ calculateComplexity(nodes, f) = 3

(* C8: when function g is nested in function f, complexity(f) is at least  *)
(* complexity(g), and the difference is the number of branching constructs *)
(* of f's subtree outside g's subtree.                                     *)
C8_NestedBranchesCountTwice ==
  \A f, g \in FunctionNodes(nodes) :
    (g # f /\ InSubtree(nodes, f, g)) =>
      /\ calculateComplexity(nodes, f) >= calculateComplexity(nodes, g)
      /\ calculateComplexity(nodes, f) - calculateComplexity(nodes, g)
           = Cardinality(Branches(nodes, Subtree(nodes, f) \ Subtree(nodes, g)))

(* both functions of a nesting are recorded with the inner one's branch *)
C8_Witness ==
  /\ Analysed
  /\ \E i, j \in DOMAIN analysis.functions :
       \E f \in NodesOf(analysis.functions[i]), g \in NodesOf(analysis.functions[j]) :
         /\ g # f
         /\ InSubtree(nodes, f, g)
         /\ Branches(nodes, Subtree(nodes, g)) # {}
         /\ analysis.functions[i].complexity = 2
         /\ analysis.functions[j].complexity = 2

(* C9: the functions of a FileAnalysis are the named function nodes of the *)
(* tree, one record each, in pre-order.                                    *)
C9_FunctionsInPreOrder ==
  Analysed =>
    /\ Len(analysis.functions) = Cardinality(NamedFunctions(nodes))
    /\ \A i \in DOMAIN analysis.functions :
         \E n \in NodesOf(analysis.functions[i]) :
           /\ n \in NamedFunctions(nodes)
           /\ Cardinality({m \in NamedFunctions(nodes) : Before(nodes, m, n)})
                = i - 1

(* a function, a function nested in it and a function after it are all    *)
(* recorded                                                                *)
C9_Witness ==
  /\ Analysed
  /\ Len(analysis.functions) = 3
  /\ \E f, g, h \in NamedFunctions(nodes) :
       /\ Parent(nodes, g) = f
       /\ Parent(nodes, h) = Parent(nodes, f)
       /\ Before(nodes, g, h)

(* the nodes below the function nodes that have no name *)
UnderUnnamed ==
  {m \in DOMAIN nodes :
     \E u \in UnnamedFunctions(nodes) : m # u /\ InSubtree(nodes, u, m)}

(* C10: a function node without a name gives no FunctionMetadata, and the  *)
(* named functions, classes and imports below it are recorded.             *)
C10_UnnamedDroppedSubtreeWalked ==
  Analysed =>
    /\ \A i \in DOMAIN analysis.functions :
         /\ analysis.functions[i].name # ""
         /\ NodesOf(analysis.functions[i]) \cap UnnamedFunctions(nodes) = {}
    /\ \A m \in UnderUnnamed :
         /\ m \in NamedFunctions(nodes) =>
              \E i \in DOMAIN analysis.functions :
                m \in NodesOf(analysis.functions[i])
         /\ m \in NamedClasses(nodes) => nodes[m].name \in Range(analysis.classes)
         /\ m \in Imports(nodes) => nodes[m].text \in Range(analysis.imports)
    /\ Len(analysis.classes) >= Cardinality(NamedClasses(nodes) \cap UnderUnnamed)
    /\ Len(analysis.imports) >= Cardinality(Imports(nodes) \cap UnderUnnamed)

(* a function and a class nested in a function without a name are recorded *)
C10_Witness ==
  /\ Analysed
  /\ analysis.functions # <<>>
  /\ analysis.classes # <<>>
  /\ UnderUnnamed \cap NamedFunctions(nodes) # {}
  /\ UnderUnnamed \cap NamedClasses(nodes) # {}

-----------------------------------------------------------------------------
(* Properties of the registry, under SpecRegistry *)

(* the language ids each grammar serves *)
IdsOf(grammar) ==
  CASE grammar = "tree-sitter-java" -> {"java"}
    [] grammar = "tree-sitter-javascript" -> {"javascript", "javascriptreact"}
    [] grammar = "tree-sitter-typescript" -> {"typescript", "typescriptreact"}
    [] grammar = "tree-sitter-python" -> {"python"}

(* C20: registration is per grammar and non-fatal: the ids of a grammar    *)
(* that failed to load are absent, those of every grammar that loaded are  *)
(* registered, and the two ids of javascript share one parser, as do the   *)
(* two of typescript, which is not the parser of any other grammar.        *)
C20_RegistrationPerGrammar ==
  loaded # NotConstructed =>
    /\ DOMAIN registry = UNION {IdsOf(g) : g \in loaded}
    /\ \A g, h \in loaded : \A i \in IdsOf(g), j \in IdsOf(h) :
         (registry[i] = registry[j]) <=> (g = h)
    /\ \A id \in DocumentLanguageIds :
         (call # NoCall /\ call.language = id /\ id \notin DOMAIN registry)
           => analysis = null

(* the javascript grammar failed to load, the others are registered and a  *)
(* typescriptreact buffer has been parsed                                  *)
C20_Witness ==
  /\ loaded = Grammars \ {"tree-sitter-javascript"}
  /\ DOMAIN registry = {"java", "typescript", "typescriptreact", "python"}
  /\ call # NoCall
  /\ call.language = "typescriptreact"
  /\ analysis # null

-----------------------------------------------------------------------------
(* Properties of the parameters, under SpecParams *)

Punctuation == {"(", ",", ")"}

(* the parameter nodes of the parameter list of function node n, in source *)
(* order: the children of the list that are not punctuation                *)
ParameterNodes(t, n) ==
  LET list == SelectSeq(t[n].children, LAMBDA c : t[c].field = "parameters")
  IN  IF list = <<>> THEN <<>>
      ELSE SelectSeq(t[Head(list)].children,
                     LAMBDA c : t[c].type \notin Punctuation)

(* the i-th named function node of the tree in pre-order *)
FunctionAt(i) ==
  CHOOSE n \in NamedFunctions(nodes) :
    Cardinality({m \in NamedFunctions(nodes) : Before(nodes, m, n)}) = i - 1

(* C11: every recorded function has one param per parameter node of its    *)
(* declaration's parameter list, in the order of the list, whatever the    *)
(* type of the parameter node.                                             *)
C11_OneParamPerParameterNode ==
  Analysed =>
    \A i \in DOMAIN analysis.functions :
      LET ps == ParameterNodes(nodes, FunctionAt(i))
          params == analysis.functions[i].params
      IN  /\ Len(params) = Len(ps)
          /\ \A k \in DOMAIN params \cap DOMAIN ps :
               params[k].name = IF nodes[ps[k]].name # "" THEN nodes[ps[k]].name
                                ELSE "unknown"

-----------------------------------------------------------------------------
(* Properties of the current function, under SpecFind *)

(* extractCurrentFunctionMetadata has returned an object *)
CurrentReturned == current # NoCall /\ current # null

(* the positions in functions of the records whose range holds the line *)
Hits(functions, line) ==
  {i \in DOMAIN functions :
     functions[i].lineStart <= line /\ line <= functions[i].lineEnd}

Least(S) == CHOOSE i \in S : \A j \in S : i <= j

(* C12: the function returned for a line is the first of the functions     *)
(* sequence whose inclusive range holds the line, which is the outermost   *)
(* of the nested functions that hold it, and undefined when none does.     *)
C12_FirstEnclosingFunction ==
  CurrentReturned =>
    LET fs == current.fileAnalysis.functions
        hits == Hits(fs, cursor + 1)
    IN  IF hits = {} THEN current.function = undefined
        ELSE /\ current.function = fs[Least(hits)]
             /\ \A j \in hits :
                  InSubtree(nodes, FunctionAt(Least(hits)), FunctionAt(j))

(* the cursor is on a line of a function nested in another: both hold it *)
C12_Witness ==
  /\ CurrentReturned
  /\ Cardinality(Hits(current.fileAnalysis.functions, cursor + 1)) >= 2
  /\ current.function # undefined

(* C13 as stated: asked at the lineStart or the lineEnd of a function of   *)
(* the analysis, the function returned is that function.                   *)
C13_BoundaryReturnsFunction ==
  CurrentReturned =>
    \A i \in DOMAIN current.fileAnalysis.functions :
      LET f == current.fileAnalysis.functions[i]
      IN  (cursor + 1 = f.lineStart \/ cursor + 1 = f.lineEnd)
            => current.function = f

(* C13, amended: asked at the lineStart or the lineEnd of a function f,    *)
(* the function returned is f when no function earlier in the sequence     *)
(* holds that line, and else the earliest function that holds it.          *)
C13_BoundaryReturnsFirstHolder ==
  CurrentReturned =>
    \A i \in DOMAIN current.fileAnalysis.functions :
      LET fs == current.fileAnalysis.functions
          earlier == {j \in Hits(fs, cursor + 1) : j < i}
      IN  (cursor + 1 = fs[i].lineStart \/ cursor + 1 = fs[i].lineEnd)
            => current.function = IF earlier = {} THEN fs[i]
                                  ELSE fs[Least(earlier)]

(* the cursor is on the last line of a function of several lines that no   *)
(* earlier function holds, and that function is returned                   *)
C13_Witness ==
  /\ CurrentReturned
  /\ current.function # undefined
  /\ current.function.lineStart < current.function.lineEnd
  /\ current.function.lineEnd = cursor + 1
  /\ Least(Hits(current.fileAnalysis.functions, cursor + 1)) = 2

-----------------------------------------------------------------------------
(* Properties of the line range, under SpecWalk *)

(* C15: the i-th recorded function has lineStart = start row + 1 and       *)
(* lineEnd = end row + 1 of the i-th named function node, so that          *)
(* 1 <= lineStart <= lineEnd.                                              *)
C15_LinesAreRowsPlusOne ==
  Analysed =>
    \A i \in DOMAIN analysis.functions :
      LET f == analysis.functions[i]
          n == FunctionAt(i)
      IN  /\ f.lineStart = nodes[n].startRow + 1
          /\ f.lineEnd = nodes[n].endRow + 1
          /\ 1 <= f.lineStart
          /\ f.lineStart <= f.lineEnd

(* a function on the first row and a function of several lines are both    *)
(* recorded                                                                *)
C15_Witness ==
  /\ Analysed
  /\ \E i, j \in DOMAIN analysis.functions :
       /\ nodes[FunctionAt(i)].startRow = 0
       /\ analysis.functions[i].lineStart = 1
       /\ analysis.functions[j].lineStart < analysis.functions[j].lineEnd

-----------------------------------------------------------------------------
(* Properties of the query layer and of the entries, under SpecQuery *)

HasFunction(a, functionName) ==
  \E i \in DOMAIN a.functions : a.functions[i].name = functionName

(* the positions in index.files of the entries that have the function *)
Owners(files, functionName) ==
  {i \in DOMAIN files : HasFunction(files[i].analysis, functionName)}

(* C14: findFunction returns the analysis of the first entry of            *)
(* index.files, in insertion order, that has a function of exactly that    *)
(* name, null if and only if no entry has one, and leaves the index as it  *)
(* was.                                                                    *)
C14_FindFunctionFirstOwner ==
  [][lookup' # lookup =>
       /\ index' = index
       /\ LET owners == Owners(index.files, lookup'.name)
          IN  /\ (lookup'.result = null) <=> (owners = {})
              /\ owners # {} =>
                   lookup'.result = index.files[Least(owners)].analysis]_vars

(* both files have the function, the file listed second by path was        *)
(* indexed first, and its analysis is the one returned                     *)
C14_Witness ==
  /\ lookup # NoCall
  /\ lookup.name = "b"
  /\ Len(index.files) = 2
  /\ Owners(index.files, "b") = {1, 2}
  /\ index.files[1].path = <<"ws", "src", "B.java">>
  /\ index.files[1].analysis.functions # index.files[2].analysis.functions
  /\ lookup.result = index.files[1].analysis

(* the entry of index.files for path p *)
Entry(p) ==
  index.files[CHOOSE i \in DOMAIN index.files : index.files[i].path = p].analysis

(* C19 as stated: the entry of a file indexed by the scan is the           *)
(* FileAnalysis as parseFile returned it: no field has been written since. *)
C19_AnalysisNeverWritten ==
  \A i \in DOMAIN scanned :
    scanned[i].ok => Entry(scanned[i].path) = scanned[i].parsed

(* C19, amended: indexFile writes fileName, the basename of the path, into *)
(* the FileAnalysis parseFile returned, before it inserts it; no other     *)
(* field is written, an entry of the index changes only when indexFile     *)
(* replaces it with the analysis of a new parse of its path, and           *)
(* findFunction writes nothing.                                            *)
C19_OnlyFileNameWritten ==
  /\ [](\A i \in DOMAIN scanned :
          scanned[i].ok =>
            /\ scanned[i].parsed.fileName = ""
            /\ Entry(scanned[i].path)
                 = [scanned[i].parsed EXCEPT !.fileName = basename(scanned[i].path)])
  /\ [][\A k \in DOMAIN index.files :
          (k \notin DOMAIN index'.files \/ index'.files[k] # index.files[k])
            => /\ scanned' = Append(scanned, scanned'[Len(scanned')])
               /\ scanned'[Len(scanned')].ok
               /\ scanned'[Len(scanned')].path = index.files[k].path
               /\ index'.files[k].path = index.files[k].path]_vars
  /\ [][lookup' # lookup => index' = index]_vars

(* a path has been indexed a second time, from a changed file, and the     *)
(* index has been queried                                                  *)
C19_Witness ==
  /\ scans = 2
  /\ lookup # NoCall
  /\ lookup.result # null
  /\ \E i \in DOMAIN scanned :
       /\ scanned[i].ok
       /\ Entry(scanned[i].path).fileName = basename(scanned[i].path)
       /\ Entry(scanned[i].path).classes # <<>>

-----------------------------------------------------------------------------
(* Properties of extractVisibility, under SpecVis *)

Keywords == {"public", "private", "protected"}

(* the modifiers nodes among the direct children of node n that hold a     *)
(* keyword, in source order                                                *)
KeywordModifiers(t, n) ==
  SelectSeq(t[n].children,
            LAMBDA c : t[c].type = "modifiers"
                         /\ \E w \in Keywords : includes(t[c].text, w))

(* the keyword that occurs first in a text that holds one *)
FirstKeyword(text) ==
  text[Least({i \in DOMAIN text : text[i] \in Keywords})]

(* C17: the visibility of a recorded function is the keyword that occurs   *)
(* first, in source order, in the text of a modifiers node that is a       *)
(* direct child of its node.                                               *)
C17_FirstKeywordInSourceOrder ==
  Analysed =>
    \A i \in DOMAIN analysis.functions :
      LET ms == KeywordModifiers(nodes, FunctionAt(i))
      IN  ms # <<>> =>
            analysis.functions[i].visibility = FirstKeyword(nodes[Head(ms)].text)

(* C18: the visibility of every recorded function is public, private,      *)
(* protected or package, and it is package exactly when no modifiers node  *)
(* among the direct children of its node holds one of the three keywords.  *)
C18_PackageIffNoKeyword ==
  Analysed =>
    \A i \in DOMAIN analysis.functions :
      LET v == analysis.functions[i].visibility
      IN  /\ v \in Keywords \cup {"package"}
          /\ (v = "package") <=> (KeywordModifiers(nodes, FunctionAt(i)) = <<>>)

(* a method with a modifier list that holds no keyword and an annotation,  *)
(* not a modifiers node, that names one is recorded as package             *)
C18_Witness ==
  /\ Analysed
  /\ \E i \in DOMAIN analysis.functions :
       LET n == FunctionAt(i)
       IN  /\ analysis.functions[i].visibility = "package"
           /\ \E c \in Range(nodes[n].children) : nodes[c].type = "modifiers"
           /\ \E c \in Range(nodes[n].children) :
                nodes[c].type # "modifiers" /\ includes(nodes[c].text, "public")

-----------------------------------------------------------------------------
(* Properties of the walk over nodes of any type, under SpecWalk, and of   *)
(* the classes, under SpecClass                                            *)

(* the nodes whose type is not function-like, class-like or import-like *)
OtherNodes(t) ==
  {n \in DOMAIN t : t[n].type \notin FunctionTypes \cup ClassTypes \cup ImportTypes}

(* the nodes that have a node of another type above them, the root apart *)
UnderOther ==
  {m \in DOMAIN nodes :
     \E u \in OtherNodes(nodes) \ {Root} : m # u /\ InSubtree(nodes, u, m)}

(* C21: the walk visits every node of the tree once and raises nothing of  *)
(* its own; the nodes of other types add no entry, and the functions,      *)
(* classes and imports below them are recorded.                            *)
C21_EveryNodeVisitedOnce ==
  (call # NoCall /\ call.language \in DOMAIN parsers /\ ~call.failed) =>
    LET st == walkTree(nodes, Root,
                       [analysis |-> EmptyAnalysis(call.language),
                        visited |-> 0, failAt |-> NoFail, thrown |-> FALSE])
    IN  /\ ~st.thrown
        /\ st.visited = Len(nodes)
        /\ analysis # null
        /\ Len(analysis.functions) + Len(analysis.classes) + Len(analysis.imports)
             = Cardinality(NamedFunctions(nodes) \cup NamedClasses(nodes)
                             \cup Imports(nodes))
        /\ \A m \in UnderOther :
             /\ m \in NamedFunctions(nodes) =>
                  \E i \in DOMAIN analysis.functions :
                    m \in NodesOf(analysis.functions[i])
             /\ m \in NamedClasses(nodes) => nodes[m].name \in Range(analysis.classes)
             /\ m \in Imports(nodes) => nodes[m].text \in Range(analysis.imports)

(* a function two levels below nodes of other types is the only entry *)
C21_Witness ==
  /\ Analysed
  /\ Len(nodes) = 4
  /\ nodes[2].type = "if_statement"
  /\ nodes[3].type = "block"
  /\ Parent(nodes, 3) = 2
  /\ Parent(nodes, 4) = 3
  /\ Len(analysis.functions) = 1
  /\ analysis.classes = <<>>
  /\ analysis.imports = <<>>

(* the i-th class-like node with a name, in pre-order *)
ClassAt(i) ==
  CHOOSE n \in NamedClasses(nodes) :
    Cardinality({m \in NamedClasses(nodes) : Before(nodes, m, n)}) = i - 1

(* C22: classes holds the name of every class-like node that has a name,   *)
(* in pre-order, repeated names kept; a class-like node without a name     *)
(* adds no entry and the classes below it are recorded.                    *)
C22_ClassesInPreOrder ==
  Analysed =>
    /\ Len(analysis.classes) = Cardinality(NamedClasses(nodes))
    /\ \A i \in DOMAIN analysis.classes :
         analysis.classes[i] = nodes[ClassAt(i)].name

(* a class, a class without a name after it and a class of the first name  *)
(* inside that one give the name twice                                     *)
C22_Witness ==
  /\ Analysed
  /\ Len(nodes) = 4
  /\ nodes[3].type \in ClassTypes
  /\ nodes[3].name = ""
  /\ Parent(nodes, 4) = 3
  /\ analysis.classes = <<"C", "C">>
-----------------------------------------------------------------------------
(* Properties of the index while it is built, under Spec *)

(* the functions and the classes of the files the scan has inserted *)
RECURSIVE InsertedFunctions(_)
InsertedFunctions(log) ==
  IF log = <<>> THEN 0
  ELSE (IF Head(log).ok THEN Len(Head(log).parsed.functions) ELSE 0)
         + InsertedFunctions(Tail(log))

RECURSIVE InsertedClasses(_)
InsertedClasses(log) ==
  IF log = <<>> THEN 0
  ELSE (IF Head(log).ok THEN Len(Head(log).parsed.classes) ELSE 0)
         + InsertedClasses(Tail(log))

(* C23: between two files of a scan in progress every entry of files has   *)
(* its fileName and language, and the totals are the numbers of functions  *)
(* and classes of the entries the scan has inserted so far.                *)
C23_PartialIndexValid ==
  pc = "scanning" =>
    /\ \A k \in DOMAIN index.files :
         /\ index.files[k].analysis # null
         /\ index.files[k].analysis.fileName = basename(index.files[k].path)
         /\ index.files[k].analysis.language \in DOMAIN parsers
    /\ index.totalFunctions = InsertedFunctions(scanned)
    /\ index.totalClasses = InsertedClasses(scanned)

-----------------------------------------------------------------------------
(* Properties of the runCommand command, under SpecCommand *)

(* C24: a text is sent to a terminal only as the command of a dialog the   *)
(* user has answered with "Run Command", and only in a trusted workspace;  *)
(* a dialog answered with "Cancel" or dismissed sends nothing.             *)
C24_SentOnlyWhenConfirmed ==
  /\ [][terminal' # terminal =>
          /\ dialogs # <<>>
          /\ confirmation' = "Run Command"
          /\ terminal' = Append(terminal, Head(dialogs))
          /\ wsTrusted]_vars
  /\ [][(dialogs' # dialogs /\ confirmation' # "Run Command")
          => terminal' = terminal]_vars
  /\ [](Len(terminal) + Len(dialogs) <= received)

(* one command has been sent after its confirmation and another has been   *)
(* cancelled                                                               *)
C24_Witness ==
  /\ terminal = <<"rm">>
  /\ received = 2
  /\ dialogs = <<>>
  /\ confirmation = "Cancel"
  /\ wsTrusted

-----------------------------------------------------------------------------
(* Properties of the first scan of an indexer, under Spec *)

(* C25: once the first indexWorkspace call of an indexer is over, each     *)
(* total is the sum of the counts over the entries of index.files, which   *)
(* is what the scan inserted; a single file of two functions gives 2.      *)
C25_FirstScanTotals ==
  (scans = 1 /\ pc # "scanning") =>
    /\ index.totalFunctions = SumFunctions(index.files)
    /\ index.totalClasses = SumClasses(index.files)
    /\ index.totalFunctions = InsertedFunctions(scanned)
    /\ index.totalClasses = InsertedClasses(scanned)
    /\ (Len(index.files) = 1 /\ Len(index.files[1].analysis.functions) = 2)
         => index.totalFunctions = 2

(* the first scan of a workspace of one file with two functions has        *)
(* returned                                                                *)
C25_Witness ==
  /\ scans = 1
  /\ pc = "returned"
  /\ Len(scanned) = 1
  /\ Len(index.files) = 1
  /\ Len(index.files[1].analysis.functions) = 2
  /\ index.totalFunctions = 2

-----------------------------------------------------------------------------
(* Properties of the indexCodebase command, under SpecIndexCommand *)

(* C29: the count an invocation reports is the number of functions of the  *)
(* files its own scan has indexed, and it equals the count of the          *)
(* invocation before it when no file has changed since that one started;   *)
(* with no workspace folder open the invocation shows an error and indexes *)
(* nothing.                                                                *)
C29_ReportsThisScanAlone ==
  /\ report.kind = "information" =>
       /\ report.functions = InsertedFunctions(scanned)
       /\ report.functions = SumFunctions(index.files)
       /\ report.files = Cardinality(ScannedOk)
       /\ (before.kind = "information" /\ ~changedPrev /\ ~changedCur)
            => report = before
  /\ pc = "nofolder" =>
       /\ report.kind = "error"
       /\ scanned = <<>>
       /\ index = EmptyIndex

(* the command has reported the same count of four functions twice *)
C29_Witness ==
  /\ runs = 2
  /\ report.kind = "information"
  /\ before.kind = "information"
  /\ ~changedPrev
  /\ ~changedCur
  /\ report.functions = 4
  /\ before.functions = 4

-----------------------------------------------------------------------------
(* Properties of the callers of parseFile, under SpecCallers *)

(* parseFile gives nothing for these arguments *)
CannotAnalyze(language, failed) == language \notin DOMAIN parsers \/ failed

(* C26: when parseFile returns null, indexFile leaves the index as it was, *)
(* extractCurrentFunctionMetadata returns null, and the chat provider      *)
(* returns a basic context with the file name, the language and the whole  *)
(* text of the document; when it returns an analysis each of them uses it. *)
C26_AbsentMeansCannotAnalyze ==
  /\ scanned # <<>> =>
       IF scanned[1].parsed = null
       THEN ~scanned[1].ok /\ index = EmptyIndex
       ELSE scanned[1].ok /\ Keys(index.files) = {BufferFileName}
  /\ current # NoCall =>
       IF CannotAnalyze(call.language, call.failed)
       THEN current = null
       ELSE current # null /\ current.fileAnalysis = analysis
  /\ context # NoCall =>
       IF CannotAnalyze(context.language, context.failed)
       THEN context.result = [type |-> "basic",
                              fileName |-> "Buffer.java",
                              language |-> context.language,
                              fullCode |-> context.code]
       ELSE /\ context.result # null
            /\ context.result.type = "enhanced"

(* the three callers have each met a buffer with a function that cannot be *)
(* analysed                                                                *)
C26_Witness ==
  /\ scanned # <<>>
  /\ scanned[1].parsed = null
  /\ current = null
  /\ context # NoCall
  /\ context.result.type = "basic"
  /\ Len(context.code) > 1
  /\ context.failed

-----------------------------------------------------------------------------
(* Properties of the chat handler, under SpecChat *)

(* the messages handler h has posted, in order *)
PostedBy(h) == SelectSeq(posted, LAMBDA m : m.chat = h)

IndicatorMessages == SelectSeq(posted, LAMBDA m : m.type = "assistantThinking")

(* C27: a handler posts assistantThinking(true), then, once it has         *)
(* finished on either path, assistantThinking(false) and one               *)
(* assistantMessage, in this order and nothing else; when no handler is    *)
(* running the last indicator message posted is assistantThinking(false).  *)
C27_ThinkingThenMessage ==
  /\ \A h \in 1..MaxChats :
       LET ms == PostedBy(h)
       IN  CASE chats[h].pc = "idle" -> ms = <<>>
             [] chats[h].pc = "asking" -> ms = <<Thinking(h, TRUE)>>
             [] OTHER ->
                  /\ Len(ms) = 3
                  /\ ms[1] = Thinking(h, TRUE)
                  /\ ms[2] = Thinking(h, FALSE)
                  /\ ms[3].type = "assistantMessage"
  /\ (\A h \in 1..MaxChats : chats[h].pc # "asking") =>
       \/ IndicatorMessages = <<>>
       \/ ~IndicatorMessages[Len(IndicatorMessages)].thinking

(* the second handler has started and ended in its catch branch while the *)
(* first was waiting for askLLM, and the first has ended after it          *)
C27_Witness ==
  /\ Len(posted) = 6
  /\ posted[1].chat = 1
  /\ posted[2].chat = 2
  /\ posted[3].chat = 2
  /\ posted[5].chat = 1
  /\ posted[5].type = "assistantThinking"
  /\ chats[1].path = "try"
  /\ chats[2].path = "catch"

(* the outcomes of the backend call that are failures *)
Failure(outcome) == outcome.kind # "response" \/ outcome.data = "null"

ErrorTexts ==
  {<<"Authentication", "failed">>, <<"Rate", "limit", "exceeded">>,
   <<"Backend", "unavailable">>, <<"API", "Error", "unknown">>,
   <<"API", "Error", "status">>, <<"Error:", "message">>,
   <<"Error:", "Unknown error occurred">>}

(* C28: askLLM settles by resolving, whatever the backend call does: a     *)
(* handler that has called it finishes outside its catch branch, and for a *)
(* failure of the call the message it posts is the error text.             *)
C28_AskLLMNeverRejects ==
  \A h \in 1..MaxChats :
    (chats[h].pc = "done" /\ chats[h].asked) =>
      /\ chats[h].path = "try"
      /\ ~askLLM(chats[h].outcome).rejected
      /\ Failure(chats[h].outcome) <=> (PostedBy(h)[3].text \in ErrorTexts)

(* a handler has posted the text of a timeout and another the text of an   *)
(* exception that is not an error of axios                                 *)
C28_Witness ==
  /\ chats[1].pc = "done"
  /\ chats[2].pc = "done"
  /\ chats[1].outcome = Outcome("axios", "", 0)
  /\ chats[2].outcome = Outcome("thrown", "", 0)
  /\ PostedBy(1)[3].text = <<"API", "Error", "unknown">>
  /\ PostedBy(2)[3].text = <<"Error:", "Unknown error occurred">>

====
